---------------------------- MODULE Spec2Model ----------------------------
(***************************************************************************)
(* A model of the travel planner: the Itinerary object of src/itinerary.py *)
(* (data files, candidate selection, generation, validation) and the       *)
(* wizard of src/travel_planner.py that drives it.                         *)
(*                                                                         *)
(* Text.  A Python str is modelled as a sequence of pieces.  A piece is an *)
(* indivisible run of characters ("France", "urban_", "attraction", "#",   *)
(* " ", a digit, ...); the text is the concatenation of its pieces.  The   *)
(* placeholder tokens are spelled out of pieces, so that a token can be    *)
(* cut in two and put together again by a replacement, as it can be in the *)
(* characters of the real text:                                            *)
(*     urban_attraction   = << "urban_",   "attraction" >>                 *)
(*     natural_attraction = << "natural_", "attraction" >>                 *)
(* No piece of the vocabulary used below contains another piece or a part  *)
(* of a token, so substring search and replacement on the pieces agree     *)
(* with str.__contains__ and str.replace on the characters.                *)
(***************************************************************************)
EXTENDS Integers, Sequences, FiniteSets, TLC

---------------------------------------------------------------------------
(* Bounds of the model. *)

\* longest string handed to the validators
MaxStrLen == 4
\* most lines of a data file handed to the two scans on their own
MaxScanLines == 4
\* longest trip generated (the program accepts 1..10)
MaxDuration == 2
\* most create_itinerary calls on one Itinerary object
MaxCalls == 2
\* most user inputs (typing, ticking, choosing) in one run of the wizard
MaxEdits == 3
\* most Restart clicks in one run of the wizard
MaxRestarts == 1

---------------------------------------------------------------------------
(* Python str operations, on sequences of pieces. *)

Whitespace == {" ", "\t", "\n"}

StartsWith(s, t) == Len(t) <= Len(s) /\ SubSeq(s, 1, Len(t)) = t

\* t in s
Contains(s, t) == \E i \in 1..(Len(s) - Len(t) + 1) : SubSeq(s, i, i + Len(t) - 1) = t

\* s.replace(old, new): every occurrence found scanning left to right, without
\* rescanning what was inserted (old is never empty in the program)
RECURSIVE Replace(_, _, _)
Replace(s, old, new) ==
    IF s = <<>> THEN <<>>
    ELSE IF StartsWith(s, old)
         THEN new \o Replace(SubSeq(s, Len(old) + 1, Len(s)), old, new)
         ELSE <<Head(s)>> \o Replace(Tail(s), old, new)

RECURSIVE LStrip(_)
LStrip(s) == IF s # <<>> /\ Head(s) \in Whitespace THEN LStrip(Tail(s)) ELSE s

RECURSIVE RStrip(_)
RStrip(s) ==
    IF s # <<>> /\ s[Len(s)] \in Whitespace THEN RStrip(SubSeq(s, 1, Len(s) - 1)) ELSE s

\* s.strip()
Strip(s) == RStrip(LStrip(s))

LowerPiece(p) ==
    CASE p = "Adventure" -> "adventure"
      [] p = "Relaxation" -> "relaxation"
      [] p = "Cultural" -> "cultural"
      [] p = "Luxury" -> "luxury"
      [] p = "Family" -> "family"
      [] p = "Car" -> "car"
      [] p = "Train" -> "train"
      [] p = "Boat" -> "boat"
      [] p = "Plane" -> "plane"
      [] OTHER -> p

\* s.lower()
Lower(s) == [i \in 1..Len(s) |-> LowerPiece(s[i])]

DecimalDigits == {"0", "1", "2", "3", "4", "5", "6", "7", "8", "9"}

\* a character str.isdigit accepts and int() rejects (superscript two, U+00B2)
SuperscriptTwo == "^2"

DigitChars == DecimalDigits \cup {SuperscriptTwo}

\* words of letters
AlphaPieces == {"John", "Doe", "abc", "Abc"}

TitlePiece(p) == IF p = "abc" THEN "Abc" ELSE p

\* s.title(): every word with a capital first letter
Title(s) == [i \in 1..Len(s) |-> TitlePiece(s[i])]

\* s.isdigit(): at least one character, all of them digits
IsDigit(s) == s # <<>> /\ \A i \in 1..Len(s) : s[i] \in DigitChars

\* s.isalnum(): at least one character, all of them letters or digits
IsAlnum(s) == s # <<>> /\ \A i \in 1..Len(s) : s[i] \in DigitChars \cup AlphaPieces

DigitValue(c) ==
    CASE c = "0" -> 0 [] c = "1" -> 1 [] c = "2" -> 2 [] c = "3" -> 3 [] c = "4" -> 4
      [] c = "5" -> 5 [] c = "6" -> 6 [] c = "7" -> 7 [] c = "8" -> 8 [] c = "9" -> 9

\* int(s) can be computed: s is made of decimal digits only (int raises ValueError
\* on a digit such as the superscript two)
IntParses(s) == s # <<>> /\ \A i \in 1..Len(s) : s[i] \in DecimalDigits

\* int(s), for a string of decimal digits
RECURSIVE PyInt(_)
PyInt(s) ==
    IF s = <<>> THEN 0 ELSE 10 * PyInt(SubSeq(s, 1, Len(s) - 1)) + DigitValue(s[Len(s)])

\* str(n), for n >= 0
RECURSIVE PyStr(_)
PyStr(n) ==
    LET d == <<"0", "1", "2", "3", "4", "5", "6", "7", "8", "9">>[(n % 10) + 1]
    IN  IF n < 10 THEN <<d>> ELSE PyStr(n \div 10) \o <<d>>

\* all strings of at most n pieces over the alphabet A
StrsUpTo(A, n) == UNION {[1..k -> A] : k \in 0..n}

---------------------------------------------------------------------------
(* Itinerary: the validators. *)

\* a mutant: the name is not rid of its spaces before the test
validate_name_keeps_spaces(name) == IsAlnum(name)

\* Itinerary.validate_name
validate_name(name) == IsAlnum(Replace(name, <<" ">>, <<>>))

\* a mutant: an empty list of styles passes
validate_styles_any(styles) == TRUE

\* Itinerary.validate_styles
validate_styles(styles) == Len(styles) > 0

\* a mutant: the upper limit is off by one (<= 11 for < 11)
validate_duration_upto_11(duration) ==
    LET d == Strip(duration)
    IN  IF ~IsDigit(d) THEN "False"
        ELSE IF ~IntParses(d) THEN "ValueError"
        ELSE IF 0 < PyInt(d) /\ PyInt(d) <= 11 THEN "True" ELSE "False"

\* Itinerary.validate_duration: "True", "False", or "ValueError" when int() raises
validate_duration(duration) ==
    LET d == Strip(duration)
    IN  IF ~IsDigit(d) THEN "False"
        ELSE IF ~IntParses(d) THEN "ValueError"
        ELSE IF 0 < PyInt(d) /\ PyInt(d) < 11 THEN "True" ELSE "False"

---------------------------------------------------------------------------
(* The placeholder tokens and the values the wizard can store. *)

URBAN == <<"urban_", "attraction">>

NATURAL == <<"natural_", "attraction">>

METHOD == <<"method_of_access">>

LOCATION == <<"location">>

HASH == <<"#">>

NL == <<"\n">>

\* the five destination buttons
Destinations ==
    { <<"United", " ", "Kingdom">>, <<"France">>, <<"Canada">>,
      <<"United", " ", "States">>, <<"Italy">> }

\* the five style checkboxes, in the order process_preferences_input reads them
StyleOrder == << <<"Adventure">>, <<"Relaxation">>, <<"Cultural">>, <<"Luxury">>, <<"Family">> >>

\* the four transport radio buttons
Transports == { <<"Car">>, <<"Train">>, <<"Boat">>, <<"Plane">> }

---------------------------------------------------------------------------
(* Itinerary: the candidate selection.  A candidate is the text the program *)
(* keeps; its field line is the number of the file line it was made from,   *)
(* which the program does not keep and the model records to tell the        *)
(* records apart.                                                           *)

\* a mutant: the natural tag is looked for first
LocationCategoryNaturalFirst(line, destination) ==
    IF Contains(line, destination) /\ Contains(line, NATURAL) THEN "natural"
    ELSE IF Contains(line, destination) /\ Contains(line, URBAN) THEN "urban"
    ELSE "none"

\* the branch of the scan a line takes
LocationCategory(line, destination) ==
    IF Contains(line, destination) /\ Contains(line, URBAN) THEN "urban"
    ELSE IF Contains(line, destination) /\ Contains(line, NATURAL) THEN "natural"
    ELSE "none"

\* a mutant: the candidate is stored without strip()
LocationTextUnstripped(line, destination, tag) ==
    Replace(Replace(line, destination, <<>>), tag, <<>>)

\* the text stored for a qualifying line
LocationText(line, destination, tag) ==
    Strip(Replace(Replace(line, destination, <<>>), tag, <<>>))

\* a mutant: the scan goes on after the block (no break)
StopsScanNever(category, reached_relevant_block) == FALSE

\* the elif of line 97: the line ends the scan
StopsScan(category, reached_relevant_block) ==
    category = "none" /\ reached_relevant_block

\* the loop of select_potential_locations from line i of the file on
RECURSIVE ScanLocations(_, _, _, _, _, _)
ScanLocations(lines, i, destination, urban, natural, reached) ==
    IF i > Len(lines) THEN [urban |-> urban, natural |-> natural, pos |-> i]
    ELSE LET category == LocationCategory(lines[i], destination)
         IN  IF category = "urban"
             THEN ScanLocations(lines, i + 1, destination,
                      Append(urban, [line |-> i,
                                     text |-> LocationText(lines[i], destination, URBAN)]),
                      natural, TRUE)
             ELSE IF category = "natural"
             THEN ScanLocations(lines, i + 1, destination, urban,
                      Append(natural, [line |-> i,
                                       text |-> LocationText(lines[i], destination, NATURAL)]),
                      TRUE)
             ELSE IF StopsScan(category, reached)
             THEN [urban |-> urban, natural |-> natural, pos |-> i + 1]
             ELSE ScanLocations(lines, i + 1, destination, urban, natural, reached)

\* Itinerary.select_potential_locations, reading the file from position pos
select_potential_locations(lines, pos, destination) ==
    ScanLocations(lines, pos, destination, <<>>, <<>>, FALSE)

\* a mutant: the style name is not lower-cased
StyleTagAsGiven(style) == HASH \o style

\* style_tag = "#%s" % style.lower()
StyleTag(style) == HASH \o Lower(style)

\* a mutant: a line is taken once, for the first requested style whose tag it holds
RECURSIVE LineActivitiesOnce(_, _, _)
LineActivitiesOnce(line, i, styles) ==
    IF styles = <<>> THEN <<>>
    ELSE IF Contains(line, HASH \o Lower(Head(styles)))
         THEN <<[line |-> i, text |-> Strip(Replace(line, HASH \o Lower(Head(styles)), <<>>))]>>
         ELSE LineActivitiesOnce(line, i, Tail(styles))

\* the candidates one line yields: one for each requested style whose tag it holds
RECURSIVE LineActivities(_, _, _)
LineActivities(line, i, styles) ==
    IF styles = <<>> THEN <<>>
    ELSE LET style_tag == StyleTag(Head(styles))
         IN  (IF Contains(line, style_tag)
              THEN <<[line |-> i, text |-> Strip(Replace(line, style_tag, <<>>))]>>
              ELSE <<>>)
             \o LineActivities(line, i, Tail(styles))

RECURSIVE ScanActivities(_, _, _)
ScanActivities(lines, i, styles) ==
    IF i > Len(lines) THEN <<>>
    ELSE LineActivities(lines[i], i, styles) \o ScanActivities(lines, i + 1, styles)

\* Itinerary.select_potential_activites, reading the file from position pos
select_potential_activites(lines, pos, styles) ==
    [activities |-> ScanActivities(lines, pos, styles), pos |-> Len(lines) + 1]

---------------------------------------------------------------------------
(* The state. *)

VARIABLES
    \* the two data files: their lines, and the file objects (state, pos: the
    \* number of the next line a read returns)
    location_lines, activity_lines, location_file, activity_file,
    \* the fields of the Itinerary
    it_name, it_destination, it_duration, it_styles, it_transport,
    \* a create_itinerary call: where it is, its locals, what it gave its caller
    pc, day, location_urban_list, location_natural_list, activity_list, itinerary, result,
    \* history of the calls: the file lines used by each completed day of the current
    \* call, the pools it started with, those of the first call, the number of calls
    used, start_pools, first_pools, calls,
    \* a validator called on its own: its argument and what it gave
    arg, ret,
    \* the wizard
    window, current_frame, placed, name_display_var, destination_display_var,
    duration_display_var, styles_checked, transport_display_var,
    selected_styles_display_var, name_entry, duration_entry,
    itinerary_display_var, error_type_display_var, callback_error, edits, restarts,
    \* history of the wizard: the handler the last step ran ("none" for a step of the
    \* user or of Tk), the inputs stored since the program was started or restarted,
    \* and what the Create Itinerary click that is being handled found
    handler, stored, at_click

dataVars == <<location_lines, activity_lines>>

fileVars == <<location_file, activity_file>>

fieldVars == <<it_name, it_destination, it_duration, it_styles, it_transport>>

callVars ==
    <<pc, day, location_urban_list, location_natural_list, activity_list, itinerary,
      result, used, start_pools, first_pools, calls>>

validatorVars == <<arg, ret>>

wizardVars ==
    <<window, current_frame, placed, name_display_var, destination_display_var,
      duration_display_var, styles_checked, transport_display_var,
      selected_styles_display_var, name_entry, duration_entry,
      itinerary_display_var, error_type_display_var, callback_error, edits, restarts,
      handler, stored, at_click>>

vars == <<dataVars, fileVars, fieldVars, callVars, validatorVars, wizardVars>>

\* what create_itinerary gave its caller: nothing yet, the text, or IndexError
NoResult == [kind |-> "none", text |-> <<>>]

NoPools == [activity |-> <<>>, urban |-> <<>>, natural |-> <<>>]

\* Itinerary.__init__
ItineraryConstructed ==
    /\ it_name = <<>>
    /\ it_destination = <<>>
    /\ it_duration = <<>>
    /\ it_styles = <<>>
    /\ it_transport = <<>>

\* no create_itinerary call was made yet
NoCall ==
    /\ pc = "idle"
    /\ day = 0
    /\ location_urban_list = <<>>
    /\ location_natural_list = <<>>
    /\ activity_list = <<>>
    /\ itinerary = <<>>
    /\ result = NoResult
    /\ used = <<>>
    /\ start_pools = NoPools
    /\ first_pools = NoPools
    /\ calls = 0

NoValidatorCall == arg = <<>> /\ ret = "none"

\* no Create Itinerary click is being handled
NoClick == [handled |-> FALSE]

\* TravelPlanner.__init__
WizardConstructed ==
    /\ window = "constructed"
    /\ current_frame = 0
    /\ placed = {}
    /\ name_display_var = <<>>
    /\ destination_display_var = <<>>
    /\ duration_display_var = <<>>
    /\ styles_checked = {}
    /\ transport_display_var = <<"Car">>
    /\ selected_styles_display_var = <<>>
    /\ name_entry = "normal"
    /\ duration_entry = "normal"
    /\ itinerary_display_var = <<>>
    /\ error_type_display_var = <<>>
    /\ callback_error = "none"
    /\ edits = 0
    /\ restarts = 0
    /\ handler = "none"
    /\ stored = <<>>
    /\ at_click = NoClick

Unopened == [state |-> "unopened", pos |-> 1]

\* Itinerary.open_data: a file just opened is read from its first line
Opened == [state |-> "open", pos |-> 1]

---------------------------------------------------------------------------
(* Itinerary: the generation. *)

\* a mutant: the files are not rewound
seek_nowhere(pos, offset) == pos

\* file.seek(offset), for offset 0: the next line read is the first one
seek(pos, offset) == offset + 1

\* a mutant: range(1, int(duration)), one day short
DayRangeShort(duration) == 1..(PyInt(duration) - 1)

\* range(1, int(duration) + 1)
DayRange(duration) == 1..PyInt(duration)

\* a mutant: the item drawn is left in the list
select_random_keeps(input_list, j) ==
    [item |-> input_list[j].text, line |-> input_list[j].line, rest |-> input_list]

\* random.choice gave input_list[j]; input_list.remove(item) takes out the first
\* candidate equal to it
select_random(input_list, j) ==
    LET item == input_list[j].text
        k == CHOOSE k \in 1..Len(input_list) :
                 /\ input_list[k].text = item
                 /\ \A m \in 1..(k - 1) : input_list[m].text # item
    IN  [item |-> item,
         line |-> input_list[k].line,
         rest |-> SubSeq(input_list, 1, k - 1) \o SubSeq(input_list, k + 1, Len(input_list))]

\* a mutant: natural_attraction is substituted before urban_attraction
SubstituteNaturalFirst(activity, urban, natural, transport, destination, d) ==
    Replace(Replace(Replace(Replace(Replace(activity,
        NATURAL, natural), URBAN, urban), METHOD, Lower(transport)),
        LOCATION, destination), HASH, PyStr(d))

\* a mutant: the days are numbered from 0
SubstituteFromZero(activity, urban, natural, transport, destination, d) ==
    Replace(Replace(Replace(Replace(Replace(activity,
        URBAN, urban), NATURAL, natural), METHOD, Lower(transport)),
        LOCATION, destination), HASH, PyStr(d - 1))

\* the chain of replace calls of generate_activity
Substitute(activity, urban, natural, transport, destination, d) ==
    Replace(Replace(Replace(Replace(Replace(activity,
        URBAN, urban), NATURAL, natural), METHOD, Lower(transport)),
        LOCATION, destination), HASH, PyStr(d))

\* random.choice on an empty list: IndexError leaves create_itinerary
RaiseIndexError ==
    /\ pc' = "raised"
    /\ result' = [kind |-> "IndexError", text |-> <<>>]
    /\ UNCHANGED <<day, itinerary, used>>

\* create_itinerary up to the loop of generate_activity: rewind, scan, empty text
CreateItineraryCall ==
    /\ location_file.state = "open"
    /\ activity_file.state = "open"
    /\ \E locations \in {select_potential_locations(location_lines,
                             seek(location_file.pos, 0), it_destination)} :
       \E activities \in {select_potential_activites(activity_lines,
                              seek(activity_file.pos, 0), it_styles)} :
       \E pools \in {[activity |-> activities.activities,
                      urban |-> locations.urban, natural |-> locations.natural]} :
           /\ location_file' = [location_file EXCEPT !.pos = locations.pos]
           /\ activity_file' = [activity_file EXCEPT !.pos = activities.pos]
           /\ location_urban_list' = locations.urban
           /\ location_natural_list' = locations.natural
           /\ activity_list' = activities.activities
           /\ start_pools' = pools
           /\ first_pools' = IF calls = 0 THEN pools ELSE first_pools
    /\ itinerary' = <<>>
    /\ day' = 1
    /\ used' = <<>>
    /\ result' = NoResult
    /\ calls' = calls + 1
    /\ pc' = "generate"

\* one pass of the loop of generate_activity
GenerateDay ==
    /\ pc = "generate"
    /\ day \in DayRange(it_duration)
    /\ IF activity_list = <<>>
       THEN /\ RaiseIndexError
            /\ UNCHANGED <<activity_list, location_urban_list, location_natural_list>>
       ELSE \E ja \in 1..Len(activity_list) :
            LET a == select_random(activity_list, ja)
            IN  /\ activity_list' = a.rest
                /\ IF location_urban_list = <<>>
                   THEN /\ RaiseIndexError
                        /\ UNCHANGED <<location_urban_list, location_natural_list>>
                   ELSE \E ju \in 1..Len(location_urban_list) :
                        LET u == select_random(location_urban_list, ju)
                        IN  /\ location_urban_list' = u.rest
                            /\ IF location_natural_list = <<>>
                               THEN /\ RaiseIndexError
                                    /\ UNCHANGED location_natural_list
                               ELSE \E jn \in 1..Len(location_natural_list) :
                                    LET n == select_random(location_natural_list, jn)
                                    IN  /\ location_natural_list' = n.rest
                                        /\ itinerary' = itinerary
                                              \o Substitute(a.item, u.item, n.item,
                                                     it_transport, it_destination, day)
                                              \o NL
                                        /\ used' = Append(used, [activity |-> a.line,
                                                     urban |-> u.line, natural |-> n.line,
                                                     template |-> a.item,
                                                     urban_text |-> u.item,
                                                     natural_text |-> n.item])
                                        /\ day' = day + 1
                                        /\ UNCHANGED <<pc, result>>
    /\ UNCHANGED <<start_pools, first_pools, calls>>
    /\ UNCHANGED <<dataVars, fileVars, fieldVars, validatorVars, wizardVars>>

\* the loop is over: generate_activity and create_itinerary return the text
GenerateReturn ==
    /\ pc = "generate"
    /\ day \notin DayRange(it_duration)
    /\ pc' = "returned"
    /\ result' = [kind |-> "text", text |-> itinerary]
    /\ UNCHANGED <<day, location_urban_list, location_natural_list, activity_list,
                   itinerary, used, start_pools, first_pools, calls>>
    /\ UNCHANGED <<dataVars, fileVars, fieldVars, validatorVars, wizardVars>>

\* create_itinerary called on the Itinerary by a caller other than the wizard
CreateItinerary ==
    /\ pc \in {"idle", "returned", "raised"}
    /\ window = "constructed"
    /\ calls < MaxCalls
    /\ CreateItineraryCall
    /\ UNCHANGED <<dataVars, fieldVars, validatorVars, wizardVars>>

---------------------------------------------------------------------------
(* The data the generation is run on: every selection of lines, in their    *)
(* order, of two files written to hold each kind of line.                   *)

MasterLocations ==
    << <<"Italy", " ", "urban_", "attraction", " ", "Rome", "\n">>,
       <<"France", " ", "urban_", "attraction", " ", "Paris", "\n">>,
       <<"France", " ", "natural_", "attraction", " ", "Alps", "\n">>,
       <<"France", " ", "urban_", "attraction", " ", "Lyon", " ", "natural_", "attraction", "\n">>,
       <<"France", " ", "natural_", "attraction", " ", "urban_", "France", "attraction", "\n">>,
       <<"Italy", " ", "natural_", "attraction", " ", "Etna", "\n">>,
       <<"France", " ", "natural_", "attraction", " ", "Jura", " ", "location", "\n">> >>

MasterActivities ==
    << <<"#", "adventure", " ", "Visit", " ", "urban_", "attraction", " ", "and", " ",
         "natural_", "attraction", " ", "by", " ", "method_of_access", " ", "in", " ",
         "location", " ", "day", " ", "#", "\n">>,
       <<"#", "adventure", " ", "#", "cultural", " ", "Tour", " ", "urban_", "attraction", "\n">>,
       <<"#", "adventure", "\n">> >>

RECURSIVE Pick(_, _, _)
Pick(master, chosen, i) ==
    IF i > Len(master) THEN <<>>
    ELSE (IF i \in chosen THEN <<master[i]>> ELSE <<>>) \o Pick(master, chosen, i + 1)

\* the files made of some of the lines of master, in their order
Selections(master) == {Pick(master, chosen, 1) : chosen \in SUBSET (1..Len(master))}

GenDestinations == { <<"France">> }

GenStyles == { <<<<"Adventure">>>>, <<<<"Adventure">>, <<"Cultural">>>> }

GenTransports == { <<"Car">>, <<"Plane">> }

\* the Itinerary with its files open and its fields set to values that pass the
\* wizard's validation
InitGen ==
    /\ location_lines \in Selections(MasterLocations)
    /\ activity_lines \in Selections(MasterActivities)
    /\ location_file = Opened
    /\ activity_file = Opened
    /\ it_name = <<"John", " ", "Doe">>
    /\ it_destination \in GenDestinations
    /\ it_duration \in {PyStr(d) : d \in 1..MaxDuration}
    /\ it_styles \in GenStyles
    /\ it_transport \in GenTransports
    /\ NoCall
    /\ NoValidatorCall
    /\ WizardConstructed

NextGen == CreateItinerary \/ GenerateDay \/ GenerateReturn

SpecGen == InitGen /\ [][NextGen]_vars

---------------------------------------------------------------------------
(* Claims about the generation, under SpecGen. *)

\* the lines of a text, each without its terminator; what follows the last
\* terminator is a line only if it is not empty
RECURSIVE SplitLines(_, _)
SplitLines(text, current) ==
    IF text = <<>> THEN (IF current = <<>> THEN <<>> ELSE <<current>>)
    ELSE IF Head(text) = "\n" THEN <<current>> \o SplitLines(Tail(text), <<>>)
    ELSE SplitLines(Tail(text), Append(current, Head(text)))

Duration == PyInt(it_duration)

\* C1: a create_itinerary call that returns gives a text of exactly D lines, each
\* ended by a newline and none of them empty
C1_ExactlyDNonEmptyLines ==
    (pc = "returned") =>
        LET lines == SplitLines(result.text, <<>>)
        IN  /\ Len(lines) = Duration
            /\ result.text[Len(result.text)] = "\n"
            /\ \A i \in 1..Len(lines) : lines[i] # <<>>

\* C2: within one pass no line of the activity file and no line of the location
\* file is used for more than one day
C2_NoRecordUsedTwice ==
    \A i, j \in 1..Len(used) :
        i # j =>
            /\ used[i].activity # used[j].activity
            /\ used[i].urban # used[j].urban
            /\ used[i].natural # used[j].natural
            /\ used[i].urban # used[j].natural

\* C3: the text returned holds none of the tokens location, method_of_access,
\* urban_attraction, natural_attraction and no '#'
C3_NoTokenLeft ==
    (pc = "returned") =>
        \A token \in {LOCATION, METHOD, URBAN, NATURAL, HASH} : ~Contains(result.text, token)

PoolsHold(pools, n) ==
    Len(pools.activity) >= n /\ Len(pools.urban) >= n /\ Len(pools.natural) >= n

\* C6: create_itinerary returns the text exactly when each of the three pools built
\* for the pass holds at least D candidates; otherwise it ends in IndexError and
\* gives no text, not even that of the days already made
C6_ReturnsIffPoolsSuffice ==
    /\ (pc = "returned") =>
           PoolsHold(start_pools, Duration) /\ result = [kind |-> "text", text |-> itinerary]
    /\ (pc = "raised") =>
           ~PoolsHold(start_pools, Duration) /\ result = [kind |-> "IndexError", text |-> <<>>]
    /\ (pc = "generate" /\ PoolsHold(start_pools, Duration) /\ day \in DayRange(it_duration)) =>
           (activity_list # <<>> /\ location_urban_list # <<>> /\ location_natural_list # <<>>)

\* C6 witness: a call ended in IndexError after a day had been written
C6_Witness == pc = "raised" /\ itinerary # <<>> /\ result.text = <<>>

Lines(pool) == {pool[i].line : i \in 1..Len(pool)}

WholeFilePools ==
    [activity |-> select_potential_activites(activity_lines, 1, it_styles).activities,
     urban |-> select_potential_locations(location_lines, 1, it_destination).urban,
     natural |-> select_potential_locations(location_lines, 1, it_destination).natural]

\* the lists the loop starts with are the candidates of the whole files
StartsFromWholeFile ==
    /\ start_pools = WholeFilePools
    /\ activity_list = start_pools.activity
    /\ location_urban_list = start_pools.urban
    /\ location_natural_list = start_pools.natural

\* every urban and every natural candidate of the pass was used exactly once
UsesEveryLocationOnce ==
    /\ Len(used) = Len(start_pools.urban)
    /\ Len(used) = Len(start_pools.natural)
    /\ {used[i].urban : i \in 1..Len(used)} = Lines(start_pools.urban)
    /\ {used[i].natural : i \in 1..Len(used)} = Lines(start_pools.natural)

TwoByTwo ==
    Len(start_pools.urban) = 2 /\ Len(start_pools.natural) = 2 /\ Duration = 2

\* C7 as stated: the pools of every call are those of the first call and of the whole
\* file, and with 2 urban and 2 natural candidates and duration 2 every generation
\* succeeds and uses every urban and every natural candidate exactly once
C7_TwoByTwoAlwaysSucceeds ==
    /\ (calls >= 1) => start_pools = first_pools
    /\ (pc = "generate" /\ day = 1) => StartsFromWholeFile
    /\ TwoByTwo => /\ pc # "raised"
                   /\ (pc = "returned") => UsesEveryLocationOnce

\* C7 amended: the pools of every call are those of the first call and of the whole
\* file, and with 2 urban and 2 natural candidates, duration 2 and at least 2
\* activity candidates every generation succeeds and uses every urban and every
\* natural candidate exactly once
C7_PoolsRebuiltEachCall ==
    /\ (calls >= 1) => start_pools = first_pools
    /\ (pc = "generate" /\ day = 1) => StartsFromWholeFile
    /\ (TwoByTwo /\ Len(start_pools.activity) >= 2) =>
           /\ pc # "raised"
           /\ (pc = "returned") => UsesEveryLocationOnce

\* C7 witness: the second generation in a row returned, with 2 urban and 2 natural
\* candidates, after scans of the location file that stopped before its end
C7_Witness ==
    /\ calls = 2
    /\ pc = "returned"
    /\ TwoByTwo
    /\ location_file.pos <= Len(location_lines)

\* s is t with some of its entries taken out
RECURSIVE IsSubsequence(_, _)
IsSubsequence(s, t) ==
    IF s = <<>> THEN TRUE
    ELSE IF t = <<>> THEN FALSE
    ELSE IF Head(s) = Head(t) THEN IsSubsequence(Tail(s), Tail(t))
    ELSE IsSubsequence(s, Tail(t))

\* the pool holds what it held at the start of the pass, less one entry a day
OneLessEachDay(pool, start) ==
    Len(pool) = Len(start) - Len(used) /\ IsSubsequence(pool, start)

\* C13: while the loop runs and when it has returned, after k completed days each of
\* the three pools holds its size at the start of the pass minus k entries, all of
\* them entries it held at the start, whatever tokens the templates drawn hold
C13_EachDayTakesOneOfEach ==
    (pc \in {"generate", "returned"}) =>
        /\ Len(used) = day - 1
        /\ OneLessEachDay(activity_list, start_pools.activity)
        /\ OneLessEachDay(location_urban_list, start_pools.urban)
        /\ OneLessEachDay(location_natural_list, start_pools.natural)

\* C13 witness: a day was completed with a template that holds neither
\* urban_attraction nor natural_attraction, and took an entry from both location pools
C13_Witness ==
    /\ pc = "generate"
    /\ Len(used) = 1
    /\ ~Contains(used[1].template, URBAN)
    /\ ~Contains(used[1].template, NATURAL)
    /\ Len(location_urban_list) = Len(start_pools.urban) - 1
    /\ Len(location_natural_list) = Len(start_pools.natural) - 1
    /\ location_urban_list # <<>>

\* the text with every '#' replaced by the number d
RECURSIVE MarkDay(_, _)
MarkDay(text, d) ==
    IF text = <<>> THEN <<>>
    ELSE (IF Head(text) = "#" THEN PyStr(d) ELSE <<Head(text)>>) \o MarkDay(Tail(text), d)

\* the template of a completed day with its tokens other than '#' substituted
Substituted(u) ==
    Replace(Replace(Replace(Replace(u.template,
        URBAN, u.urban_text), NATURAL, u.natural_text), METHOD, Lower(it_transport)),
        LOCATION, it_destination)

\* C14: the text holds one line for each completed day, in the order of the days, and
\* the line of day i is the substituted template of day i with every '#' replaced by
\* the decimal number i; when the call returns the days are 1..D
C14_LinesInDayOrder ==
    (pc \in {"generate", "returned", "raised"}) =>
        \A lines \in {SplitLines(itinerary, <<>>)} :
            /\ Len(lines) = Len(used)
            /\ \A i \in 1..Len(lines) :
                   /\ lines[i] = MarkDay(Substituted(used[i]), i)
                   /\ ~Contains(lines[i], HASH)
            /\ (pc = "returned") => (Len(lines) = Duration /\ result.text = itinerary)

\* C14 witness: a text of two days was returned whose second line holds the number 2
\* where its template holds '#'
C14_Witness ==
    /\ pc = "returned"
    /\ Len(used) = 2
    /\ Contains(used[2].template, HASH)
    /\ Contains(SplitLines(result.text, <<>>)[2], <<"2">>)
    /\ ~Contains(SplitLines(result.text, <<>>)[2], <<"1">>)

---------------------------------------------------------------------------
(* The validators on their own: every string of at most MaxStrLen characters *)
(* of two small alphabets is handed to each of them.                         *)

DurationChars == {"0", "1", "5", " ", "\t", "abc", "+", SuperscriptTwo}

NameChars == {"John", "Doe", "7", " ", "_", "!"}

InitValidate ==
    /\ arg \in StrsUpTo(DurationChars, MaxStrLen) \cup StrsUpTo(NameChars, MaxStrLen)
    /\ ret = "none"
    /\ location_lines = <<>>
    /\ activity_lines = <<>>
    /\ location_file = Unopened
    /\ activity_file = Unopened
    /\ ItineraryConstructed
    /\ NoCall
    /\ WizardConstructed

ValidateDuration ==
    /\ pc = "idle"
    /\ pc' = "validate_duration"
    /\ ret' = validate_duration(arg)
    /\ UNCHANGED <<arg, day, location_urban_list, location_natural_list, activity_list,
                   itinerary, result, used, start_pools, first_pools, calls>>
    /\ UNCHANGED <<dataVars, fileVars, fieldVars, wizardVars>>

ValidateName ==
    /\ pc = "idle"
    /\ pc' = "validate_name"
    /\ ret' = IF validate_name(arg) THEN "True" ELSE "False"
    /\ UNCHANGED <<arg, day, location_urban_list, location_natural_list, activity_list,
                   itinerary, result, used, start_pools, first_pools, calls>>
    /\ UNCHANGED <<dataVars, fileVars, fieldVars, wizardVars>>

NextValidate == ValidateDuration \/ ValidateName

SpecValidate == InitValidate /\ [][NextValidate]_vars

\* made of decimal digits only, at least one
OnlyDecimalDigits(s) == Len(s) > 0 /\ \A i \in 1..Len(s) : s[i] \in DecimalDigits

\* without its leading and trailing whitespace
Trimmed(s) ==
    LET inner == {i \in 1..Len(s) : s[i] \notin Whitespace}
    IN  IF inner = {} THEN <<>>
        ELSE SubSeq(s, CHOOSE i \in inner : \A j \in inner : i <= j,
                       CHOOSE i \in inner : \A j \in inner : i >= j)

DurationExamples ==
    /\ arg = <<"5">> => ret = "True"
    /\ arg \in {<<"0">>, <<"1", "1">>, <<"abc">>, <<>>} => ret = "False"

\* C4 as stated: validate_duration(s) is True exactly when s is made of digits only
\* and its value is in 1..10; so digits with whitespace around them are invalid
C4_DurationValidIffDigits1To10 ==
    (pc = "validate_duration") =>
        /\ (ret = "True") <=> (OnlyDecimalDigits(arg) /\ PyInt(arg) \in 1..10)
        /\ DurationExamples

\* C4 amended: validate_duration(s) is True exactly when s without its leading and
\* trailing whitespace is made of decimal digits only and its value is in 1..10;
\* "0", "11", "abc" and "" are invalid, "5" is valid
C4_DurationValidIffStrippedDigits1To10 ==
    (pc = "validate_duration") =>
        /\ (ret = "True") <=>
               (OnlyDecimalDigits(Trimmed(arg)) /\ PyInt(Trimmed(arg)) \in 1..10)
        /\ DurationExamples

\* C4 witness: a duration with whitespace around its digits was found valid
C4_Witness == pc = "validate_duration" /\ arg = <<" ", "1", "0", " ">> /\ ret = "True"

\* C5: validate_name(s) is True exactly when s without its spaces is not empty and
\* made of letters and digits only; "John Doe" is valid, "John_Doe!", "" and names of
\* spaces only are invalid
C5_NameValidIffAlnumWithoutSpaces ==
    (pc = "validate_name") =>
        LET rest == SelectSeq(arg, LAMBDA c : c # " ")
        IN  /\ (ret = "True") <=>
                   (Len(rest) > 0 /\ \A i \in 1..Len(rest) :
                                         rest[i] \in AlphaPieces \cup DigitChars)
            /\ ret \in {"True", "False"}
            /\ arg = <<"John", " ", "Doe">> => ret = "True"
            /\ arg \in {<<"John", "_", "Doe", "!">>, <<>>, <<" ">>, <<" ", " ">>} =>
                   ret = "False"

\* C5 witness: a name with a space inside was found valid
C5_Witness == pc = "validate_name" /\ arg = <<"John", " ", "Doe">> /\ ret = "True"

---------------------------------------------------------------------------
(* The scan of the location file on its own: every file of at most          *)
(* MaxScanLines lines of each kind is scanned from its start.               *)

ScanVocab ==
    { <<"Italy", " ", "urban_", "attraction", " ", "Rome", "\n">>,
      <<"France", " ", "urban_", "attraction", " ", "Paris", "\n">>,
      <<"France", " ", "natural_", "attraction", " ", "Alps", "\n">>,
      <<"France", " ", "urban_", "attraction", " ", "Lyon", " ", "natural_", "attraction", "\n">>,
      <<"France", " ", "Nice", "\n">>,
      <<"Italy", " ", "natural_", "attraction", " ", "Etna", "\n">> }

InitLocations ==
    /\ location_lines \in StrsUpTo(ScanVocab, MaxScanLines)
    /\ activity_lines = <<>>
    /\ location_file = Opened
    /\ activity_file = Opened
    /\ it_name = <<>>
    /\ it_destination \in GenDestinations \cup { <<"Italy">> }
    /\ it_duration = <<>>
    /\ it_styles = <<>>
    /\ it_transport = <<>>
    /\ NoCall
    /\ NoValidatorCall
    /\ WizardConstructed

\* select_potential_locations(destination) called on the file just opened
SelectPotentialLocations ==
    /\ pc = "idle"
    /\ location_file.state = "open"
    /\ \E locations \in {select_potential_locations(location_lines,
                             location_file.pos, it_destination)} :
           /\ location_file' = [location_file EXCEPT !.pos = locations.pos]
           /\ location_urban_list' = locations.urban
           /\ location_natural_list' = locations.natural
    /\ pc' = "select_potential_locations"
    /\ UNCHANGED <<day, activity_list, itinerary, result, used, start_pools,
                   first_pools, calls, activity_file>>
    /\ UNCHANGED <<dataVars, fieldVars, validatorVars, wizardVars>>

NextLocations == SelectPotentialLocations

SpecLocations == InitLocations /\ [][NextLocations]_vars

\* the lines the scan read
Scanned == 1..(location_file.pos - 1)

HasBoth(line, tag) == Contains(line, it_destination) /\ Contains(line, tag)

Stored(line, tag) == Strip(Replace(Replace(line, it_destination, <<>>), tag, <<>>))

\* each line gives at most one candidate, and the candidates are as stored
PoolsWellMade ==
    /\ \A i \in Scanned :
           Cardinality({k \in 1..Len(location_urban_list) : location_urban_list[k].line = i})
           + Cardinality({k \in 1..Len(location_natural_list) :
                              location_natural_list[k].line = i}) <= 1
    /\ \A k \in 1..Len(location_urban_list) :
           /\ location_urban_list[k].line \in Scanned
           /\ location_urban_list[k].text =
                  Stored(location_lines[location_urban_list[k].line], URBAN)
    /\ \A k \in 1..Len(location_natural_list) :
           /\ location_natural_list[k].line \in Scanned
           /\ location_natural_list[k].text =
                  Stored(location_lines[location_natural_list[k].line], NATURAL)

\* C9 as stated: a scanned line is in the urban pool iff it holds the destination and
\* urban_attraction, in the natural pool iff it holds the destination and
\* natural_attraction, in at most one pool, stored without destination and tag, trimmed
C9_BucketedByTag ==
    (pc = "select_potential_locations") =>
        /\ \A i \in Scanned :
               /\ (i \in Lines(location_urban_list)) <=> HasBoth(location_lines[i], URBAN)
               /\ (i \in Lines(location_natural_list)) <=> HasBoth(location_lines[i], NATURAL)
        /\ PoolsWellMade

\* C9 amended: a scanned line is in the urban pool iff it holds the destination and
\* urban_attraction, in the natural pool iff it holds the destination and
\* natural_attraction and not urban_attraction, in at most one pool, stored without
\* the destination and the tag of its pool, trimmed
C9_BucketedUrbanFirst ==
    (pc = "select_potential_locations") =>
        /\ \A i \in Scanned :
               /\ (i \in Lines(location_urban_list)) <=> HasBoth(location_lines[i], URBAN)
               /\ (i \in Lines(location_natural_list)) <=>
                      (HasBoth(location_lines[i], NATURAL)
                       /\ ~Contains(location_lines[i], URBAN))
        /\ PoolsWellMade

\* C9 witness: a line with the destination and both tags was scanned, and is a
\* candidate of the urban pool only
C9_Witness ==
    /\ pc = "select_potential_locations"
    /\ \E i \in Scanned :
           /\ HasBoth(location_lines[i], URBAN)
           /\ HasBoth(location_lines[i], NATURAL)
           /\ i \in Lines(location_urban_list)
           /\ i \notin Lines(location_natural_list)

Qualifies(i) ==
    HasBoth(location_lines[i], URBAN) \/ HasBoth(location_lines[i], NATURAL)

\* the first contiguous run of qualifying lines of the file
FirstRun ==
    {i \in 1..Len(location_lines) :
        /\ Qualifies(i)
        /\ \A j \in 1..i : Qualifies(j) \/ (\A k \in 1..j : ~Qualifies(k))}

\* C10: the scan stops at the first non-qualifying line after a qualifying one: the
\* pools hold exactly the qualifying lines of the first contiguous run, in file
\* order, and no line after the run is read past the one that ends it
C10_FirstRunOnly ==
    (pc = "select_potential_locations") =>
        /\ Lines(location_urban_list) \cup Lines(location_natural_list) = FirstRun
        /\ \A k, m \in 1..Len(location_urban_list) :
               k < m => location_urban_list[k].line < location_urban_list[m].line
        /\ \A k, m \in 1..Len(location_natural_list) :
               k < m => location_natural_list[k].line < location_natural_list[m].line
        /\ FirstRun # {} => \A i \in Scanned : \E j \in FirstRun : i <= j + 1

\* C10 witness: a qualifying line after the line that ended the run was left out
C10_Witness ==
    /\ pc = "select_potential_locations"
    /\ FirstRun # {}
    /\ \E i \in 1..Len(location_lines) :
           /\ Qualifies(i)
           /\ i \notin FirstRun
           /\ i \notin Scanned
           /\ i \notin Lines(location_urban_list) \cup Lines(location_natural_list)

---------------------------------------------------------------------------
(* The scan of the activity file on its own: every file of at most          *)
(* MaxScanLines lines of each kind is scanned from its start, for each list *)
(* of styles the checkboxes can give.                                       *)

ActivityVocab ==
    { <<"#", "adventure", " ", "Hike", "\n">>,
      <<"#", "adventure", " ", "#", "cultural", " ", "Tour", "\n">>,
      <<"#", "Adventure", " ", "Climb", "\n">>,
      <<" ", "Walk", " ", "#", "cultural", " ", "\n">>,
      <<"#", "relaxation", " ", "Spa", "\n">> }

ScanStyles ==
    { <<<<"Adventure">>>>, <<<<"Cultural">>>>, <<<<"Adventure">>, <<"Cultural">>>>,
      <<<<"Adventure">>, <<"Relaxation">>, <<"Cultural">>>> }

InitActivities ==
    /\ location_lines = <<>>
    /\ activity_lines \in StrsUpTo(ActivityVocab, MaxScanLines)
    /\ location_file = Opened
    /\ activity_file = Opened
    /\ it_name = <<>>
    /\ it_destination = <<>>
    /\ it_duration = <<>>
    /\ it_styles \in ScanStyles
    /\ it_transport = <<>>
    /\ NoCall
    /\ NoValidatorCall
    /\ WizardConstructed

\* select_potential_activites(styles) called on the file just opened
SelectPotentialActivites ==
    /\ pc = "idle"
    /\ activity_file.state = "open"
    /\ \E activities \in {select_potential_activites(activity_lines,
                              activity_file.pos, it_styles)} :
           /\ activity_file' = [activity_file EXCEPT !.pos = activities.pos]
           /\ activity_list' = activities.activities
    /\ pc' = "select_potential_activites"
    /\ UNCHANGED <<day, location_urban_list, location_natural_list, itinerary, result,
                   used, start_pools, first_pools, calls, location_file>>
    /\ UNCHANGED <<dataVars, fieldVars, validatorVars, wizardVars>>

NextActivities == SelectPotentialActivites

SpecActivities == InitActivities /\ [][NextActivities]_vars

\* the requested styles whose tag, '#' and the name in lower case, the line holds
TagsHeld(line) ==
    {s \in 1..Len(it_styles) : Contains(line, HASH \o Lower(it_styles[s]))}

\* the requested styles whose tag the line holds in any case
TagsHeldAnyCase(line) ==
    {s \in 1..Len(it_styles) : Contains(Lower(line), HASH \o Lower(it_styles[s]))}

\* the line without a tag, trimmed
WithoutTag(line, tag) == Trimmed(Replace(line, tag, <<>>))

\* every candidate is a line without the tag of a requested style it holds, trimmed
StoredWithoutTag ==
    \A k \in 1..Len(activity_list) :
        /\ activity_list[k].line \in 1..Len(activity_lines)
        /\ \E s \in TagsHeld(activity_lines[activity_list[k].line]) :
               activity_list[k].text =
                   WithoutTag(activity_lines[activity_list[k].line],
                              HASH \o Lower(it_styles[s]))

\* C11 as stated: a line is a candidate iff it holds '#' followed by the name of a
\* requested style, the name matched in any case; the candidate stored is the line
\* without the matched tag, trimmed
C11_CandidateIffTagAnyCase ==
    (pc = "select_potential_activites") =>
        /\ \A i \in 1..Len(activity_lines) :
               (i \in Lines(activity_list)) <=> (TagsHeldAnyCase(activity_lines[i]) # {})
        /\ StoredWithoutTag

\* C11 amended: a line is a candidate iff it holds '#' followed by the name of a
\* requested style in lower case (the requested name is lower-cased, the line is
\* not); the candidate stored is the line without the matched tag, trimmed
C11_CandidateIffLowerCaseTag ==
    (pc = "select_potential_activites") =>
        /\ \A i \in 1..Len(activity_lines) :
               (i \in Lines(activity_list)) <=> (TagsHeld(activity_lines[i]) # {})
        /\ StoredWithoutTag

\* C11 witness: with Adventure requested, a line tagged #adventure is a candidate,
\* stored without the tag and trimmed, and a line tagged #Adventure is not one
C11_Witness ==
    /\ pc = "select_potential_activites"
    /\ \E k \in 1..Len(activity_list) : activity_list[k].text = <<"Hike">>
    /\ \E i \in 1..Len(activity_lines) :
           /\ activity_lines[i] = <<"#", "Adventure", " ", "Climb", "\n">>
           /\ i \notin Lines(activity_list)

\* the entries of the pool made from line i
EntriesOf(i) == {k \in 1..Len(activity_list) : activity_list[k].line = i}

\* C12: a line that holds the tags of k requested styles gives exactly k entries of
\* the pool, one for each such style in the order requested, the lines in file
\* order; equal entries are kept; a line that holds no requested tag gives none
C12_OneEntryPerMatchingStyle ==
    (pc = "select_potential_activites") =>
        /\ \A i \in 1..Len(activity_lines) :
               Cardinality(EntriesOf(i)) = Cardinality(TagsHeld(activity_lines[i]))
        /\ \A k, m \in 1..Len(activity_list) :
               k < m => activity_list[k].line <= activity_list[m].line
        /\ \A i \in 1..Len(activity_lines) :
               \A s \in TagsHeld(activity_lines[i]) :
                   \E k \in EntriesOf(i) :
                       /\ activity_list[k].text =
                              WithoutTag(activity_lines[i], HASH \o Lower(it_styles[s]))
                       /\ Cardinality({m \in EntriesOf(i) : m < k})
                              = Cardinality({t \in TagsHeld(activity_lines[i]) : t < s})

\* C12 witness: a line with two requested tags gave two entries, and the pool holds
\* two equal entries
C12_Witness ==
    /\ pc = "select_potential_activites"
    /\ \E i \in 1..Len(activity_lines) : Cardinality(EntriesOf(i)) = 2
    /\ \E k, m \in 1..Len(activity_list) :
           k # m /\ activity_list[k].text = activity_list[m].text

---------------------------------------------------------------------------
(* TravelPlanner: the wizard.  A button can be clicked when the frame that  *)
(* holds it is placed, the main loop runs and no handler is running.        *)

frame_cycle ==
    <<"menu_frame", "name_entry_frame", "destination_frame_one",
      "destination_frame_two", "travel_preferences_frame", "itinerary_frame">>

\* frame_cycle[index], the index counted from 0 as in the program: a negative index
\* counts from the end of the list, an index outside the list raises IndexError
FrameAt(index) ==
    IF index \in 0..(Len(frame_cycle) - 1) THEN frame_cycle[index + 1]
    ELSE IF index \in (0 - Len(frame_cycle))..(0 - 1) THEN frame_cycle[index + Len(frame_cycle) + 1]
    ELSE "IndexError"

\* frame_cycle[current_frame]
CurrentFrame == FrameAt(current_frame)

Clickable(frame) == window = "mainloop" /\ pc = "idle" /\ frame \in placed

\* the location file the wizard runs on: one urban and one natural line of France
\* between lines of Italy
WizardLocations == Pick(MasterLocations, {1, 2, 3, 6}, 1)

\* the data the wizard runs on
InitWizard ==
    /\ location_lines = WizardLocations
    /\ activity_lines = MasterActivities
    /\ location_file = Unopened
    /\ activity_file = Unopened
    /\ ItineraryConstructed
    /\ NoCall
    /\ NoValidatorCall
    /\ WizardConstructed

\* what the user types and picks
NameInputs == { <<"John", " ", "Doe">>, <<"John", "_", "Doe", "!">> }

DurationInputs == { <<" ", "1">>, <<"2">>, <<"1", "1">>, <<SuperscriptTwo>> }

StyleInputs == { <<"Adventure">>, <<"Cultural">> }

TransportInputs == { <<"Train">> }

callUnchanged ==
    UNCHANGED <<pc, day, location_urban_list, location_natural_list, activity_list,
                itinerary, result, used, start_pools, first_pools, calls>>

\* a mutant: the frame left is not taken off the window
DisplayNextFrameKeepsOld(increment) ==
    /\ current_frame' = current_frame + increment
    /\ placed' = placed \cup {FrameAt(current_frame + increment)}

\* display_next_frame(increment), and display_previous_frame(-increment), as the
\* changes of current_frame and placed; the handlers call it last, so an IndexError
\* of the last line leaves the frame taken off, the index changed and nothing placed
DisplayNextFrame(increment) ==
    /\ current_frame' = current_frame + increment
    /\ placed' = (placed \ {CurrentFrame})
                     \cup ({FrameAt(current_frame + increment)} \ {"IndexError"})

\* manage_error_frame(True, error)
DisplayErrorFrame(error) ==
    /\ error_type_display_var' = <<"Invalid", " ">> \o error
    /\ placed' = (placed \ {CurrentFrame}) \cup {"error_frame"}
    /\ UNCHANGED current_frame

\* main: start_program, then mainloop
StartProgram ==
    /\ window = "constructed"
    /\ location_file.state = "unopened"
    /\ DisplayNextFrame(0)
    /\ location_file' = Opened
    /\ activity_file' = Opened
    /\ window' = "mainloop"
    /\ callUnchanged
    /\ UNCHANGED <<dataVars, fieldVars, validatorVars, name_display_var,
                   destination_display_var, duration_display_var, styles_checked,
                   transport_display_var, selected_styles_display_var, name_entry,
                   duration_entry, itinerary_display_var, error_type_display_var,
                   callback_error, edits, restarts>>
    /\ handler' = "start_program"
    /\ UNCHANGED stored
    /\ UNCHANGED at_click

\* the Quit button: end_program
EndProgram ==
    /\ Clickable("menu_frame")
    /\ location_file' = [location_file EXCEPT !.state = "closed"]
    /\ activity_file' = [activity_file EXCEPT !.state = "closed"]
    /\ window' = "destroyed"
    /\ placed' = {}
    /\ callUnchanged
    /\ UNCHANGED <<dataVars, fieldVars, validatorVars, current_frame, name_display_var,
                   destination_display_var, duration_display_var, styles_checked,
                   transport_display_var, selected_styles_display_var, name_entry,
                   duration_entry, itinerary_display_var, error_type_display_var,
                   callback_error, edits, restarts>>
    /\ handler' = "end_program"
    /\ UNCHANGED stored
    /\ UNCHANGED at_click

\* the window is closed through the window manager: no handler is registered for it,
\* Tk destroys the window, mainloop returns and main ends
CloseWindow ==
    /\ window = "mainloop"
    /\ pc = "idle"
    /\ window' = "destroyed"
    /\ placed' = {}
    /\ callUnchanged
    /\ UNCHANGED <<dataVars, fileVars, fieldVars, validatorVars, current_frame,
                   name_display_var, destination_display_var, duration_display_var,
                   styles_checked, transport_display_var, selected_styles_display_var,
                   name_entry, duration_entry, itinerary_display_var,
                   error_type_display_var, callback_error, edits, restarts>>
    /\ handler' = "none"
    /\ UNCHANGED stored
    /\ UNCHANGED at_click

\* the buttons Start Planning and More Locations: display_next_frame()
NextFrameButton ==
    /\ Clickable("menu_frame") \/ Clickable("destination_frame_one")
    /\ DisplayNextFrame(1)
    /\ callUnchanged
    /\ UNCHANGED <<dataVars, fileVars, fieldVars, validatorVars, window, name_display_var,
                   destination_display_var, duration_display_var, styles_checked,
                   transport_display_var, selected_styles_display_var, name_entry,
                   duration_entry, itinerary_display_var, error_type_display_var,
                   callback_error, edits, restarts>>
    /\ handler' = "display_next_frame"
    /\ UNCHANGED stored
    /\ UNCHANGED at_click

\* the button Return: display_previous_frame()
PreviousFrameButton ==
    /\ Clickable("destination_frame_two")
    /\ DisplayNextFrame(-1)
    /\ callUnchanged
    /\ UNCHANGED <<dataVars, fileVars, fieldVars, validatorVars, window, name_display_var,
                   destination_display_var, duration_display_var, styles_checked,
                   transport_display_var, selected_styles_display_var, name_entry,
                   duration_entry, itinerary_display_var, error_type_display_var,
                   callback_error, edits, restarts>>
    /\ handler' = "display_previous_frame"
    /\ UNCHANGED stored
    /\ UNCHANGED at_click

\* a mutant: Restart also empties the Itinerary and the text displayed
RestartProgramClears ==
    /\ \E frame \in {"name_entry_frame", "destination_frame_one",
                     "travel_preferences_frame", "itinerary_frame"} : Clickable(frame)
    /\ restarts < MaxRestarts
    /\ restarts' = restarts + 1
    /\ current_frame' = 0
    /\ placed' = (placed \ {CurrentFrame}) \cup {frame_cycle[1]}
    /\ name_entry' = "normal"
    /\ duration_entry' = "normal"
    /\ callUnchanged
    /\ it_name' = <<>>
    /\ it_destination' = <<>>
    /\ it_duration' = <<>>
    /\ it_styles' = <<>>
    /\ it_transport' = <<>>
    /\ itinerary_display_var' = <<>>
    /\ UNCHANGED <<dataVars, fileVars, validatorVars, window, name_display_var,
                   destination_display_var, duration_display_var, styles_checked,
                   transport_display_var, selected_styles_display_var,
                   error_type_display_var, callback_error, edits>>
    /\ handler' = "restart_program"
    /\ stored' = <<>>
    /\ UNCHANGED at_click

\* the Restart buttons: restart_program
RestartProgram ==
    /\ \E frame \in {"name_entry_frame", "destination_frame_one",
                     "travel_preferences_frame", "itinerary_frame"} : Clickable(frame)
    /\ restarts < MaxRestarts
    /\ restarts' = restarts + 1
    /\ current_frame' = 0
    /\ placed' = (placed \ {CurrentFrame}) \cup {frame_cycle[1]}
    /\ name_entry' = "normal"
    /\ duration_entry' = "normal"
    /\ callUnchanged
    /\ UNCHANGED <<dataVars, fileVars, fieldVars, validatorVars, window, name_display_var,
                   destination_display_var, duration_display_var, styles_checked,
                   transport_display_var, selected_styles_display_var,
                   itinerary_display_var, error_type_display_var, callback_error, edits>>
    /\ handler' = "restart_program"
    /\ stored' = <<>>
    /\ UNCHANGED at_click

\* the user types a name into the name entry
TypeName ==
    /\ Clickable("name_entry_frame")
    /\ name_entry = "normal"
    /\ edits < MaxEdits
    /\ edits' = edits + 1
    /\ \E name \in NameInputs : name_display_var' = name
    /\ callUnchanged
    /\ UNCHANGED <<dataVars, fileVars, fieldVars, validatorVars, window, current_frame,
                   placed, destination_display_var, duration_display_var, styles_checked,
                   transport_display_var, selected_styles_display_var, name_entry,
                   duration_entry, itinerary_display_var, error_type_display_var,
                   callback_error, restarts>>
    /\ handler' = "none"
    /\ UNCHANGED stored
    /\ UNCHANGED at_click

\* the button Next of the name frame: process_name_input
ProcessNameInput ==
    /\ Clickable("name_entry_frame")
    /\ IF validate_name(name_display_var)
       THEN /\ it_name' = Title(Strip(name_display_var))
            /\ name_entry' = "disabled"
            /\ name_display_var' = it_name'
            /\ DisplayNextFrame(1)
            /\ UNCHANGED error_type_display_var
       ELSE /\ DisplayErrorFrame(<<"Name">>)
            /\ UNCHANGED <<it_name, name_entry, name_display_var>>
    /\ callUnchanged
    /\ UNCHANGED <<dataVars, fileVars, validatorVars, it_destination, it_duration,
                   it_styles, it_transport, window, destination_display_var,
                   duration_display_var, styles_checked, transport_display_var,
                   selected_styles_display_var, duration_entry, itinerary_display_var,
                   callback_error, edits, restarts>>
    /\ handler' = "process_name_input"
    /\ stored' = IF validate_name(name_display_var) THEN Append(stored, "name") ELSE stored
    /\ UNCHANGED at_click

\* a destination button: process_destination_input(destination)
ProcessDestinationInput ==
    /\ \E destination \in Destinations :
           /\ IF destination \in { <<"United", " ", "States">>, <<"Italy">> }
              THEN Clickable("destination_frame_two") /\ DisplayNextFrame(1)
              ELSE Clickable("destination_frame_one") /\ DisplayNextFrame(2)
           /\ it_destination' = destination
           /\ destination_display_var' = destination
    /\ callUnchanged
    /\ UNCHANGED <<dataVars, fileVars, validatorVars, it_name, it_duration, it_styles,
                   it_transport, window, name_display_var, duration_display_var,
                   styles_checked, transport_display_var, selected_styles_display_var,
                   name_entry, duration_entry, itinerary_display_var,
                   error_type_display_var, callback_error, edits, restarts>>
    /\ handler' = "process_destination_input"
    /\ stored' = Append(stored, "destination")
    /\ UNCHANGED at_click

\* the user ticks or unticks a style, picks a transport, or types a duration
EditPreferences ==
    /\ Clickable("travel_preferences_frame")
    /\ edits < MaxEdits
    /\ edits' = edits + 1
    /\ \/ /\ \E style \in StyleInputs :
                styles_checked' = IF style \in styles_checked
                                  THEN styles_checked \ {style}
                                  ELSE styles_checked \cup {style}
          /\ UNCHANGED <<transport_display_var, duration_display_var>>
       \/ /\ \E transport \in TransportInputs : transport_display_var' = transport
          /\ UNCHANGED <<styles_checked, duration_display_var>>
       \/ /\ duration_entry = "normal"
          /\ \E duration \in DurationInputs : duration_display_var' = duration
          /\ UNCHANGED <<styles_checked, transport_display_var>>
    /\ callUnchanged
    /\ UNCHANGED <<dataVars, fileVars, fieldVars, validatorVars, window, current_frame,
                   placed, name_display_var, destination_display_var,
                   selected_styles_display_var, name_entry, duration_entry,
                   itinerary_display_var, error_type_display_var, callback_error, restarts>>
    /\ handler' = "none"
    /\ UNCHANGED stored
    /\ UNCHANGED at_click

\* the styles ticked, in the order of the checkboxes
StylesList == SelectSeq(StyleOrder, LAMBDA style : style \in styles_checked)

\* ", ".join(styles_list)
RECURSIVE Join(_)
Join(list) ==
    IF list = <<>> THEN <<>>
    ELSE IF Len(list) = 1 THEN list[1]
    ELSE list[1] \o <<",", " ">> \o Join(Tail(list))

\* what a Create Itinerary click finds: the state the claims about it speak of
Found ==
    [handled |-> TRUE, current_frame |-> current_frame,
     itinerary_display_var |-> itinerary_display_var, it_styles |-> it_styles,
     it_transport |-> it_transport, it_duration |-> it_duration,
     duration_entry |-> duration_entry]

\* the button Create Itinerary: process_preferences_input, up to the loop of
\* generate_activity inside its create_itinerary call
ProcessPreferencesInput ==
    /\ Clickable("travel_preferences_frame")
    /\ calls < MaxCalls
    /\ IF ~validate_styles(StylesList) \/ validate_duration(duration_display_var) = "False"
       THEN /\ DisplayErrorFrame(<<"Preference(s)">>)
            /\ callUnchanged
            /\ UNCHANGED <<fileVars, fieldVars, duration_entry, duration_display_var,
                           selected_styles_display_var, callback_error>>
       ELSE IF validate_duration(duration_display_var) = "ValueError"
       THEN \* int() raised inside validate_duration: Tk reports it, nothing was done
            /\ callback_error' = "ValueError"
            /\ callUnchanged
            /\ UNCHANGED <<fileVars, fieldVars, duration_entry, duration_display_var,
                           selected_styles_display_var, current_frame, placed,
                           error_type_display_var>>
       ELSE /\ it_styles' = StylesList
            /\ it_transport' = transport_display_var
            /\ it_duration' = Strip(duration_display_var)
            /\ duration_entry' = "disabled"
            /\ duration_display_var' = it_duration'
            /\ selected_styles_display_var' = Join(StylesList)
            /\ CreateItineraryCall
            /\ UNCHANGED <<it_name, it_destination, current_frame, placed,
                           error_type_display_var, callback_error>>
    /\ UNCHANGED <<dataVars, validatorVars, window, name_display_var,
                   destination_display_var, styles_checked, transport_display_var,
                   name_entry, itinerary_display_var, edits, restarts>>
    /\ handler' = "process_preferences_input"
    /\ stored' = IF validate_styles(StylesList) /\ validate_duration(duration_display_var) = "True"
               THEN Append(stored, "preferences") ELSE stored
    /\ at_click' = IF validate_styles(StylesList) /\ validate_duration(duration_display_var) = "True"
                 THEN Found ELSE at_click

\* create_itinerary returned to process_preferences_input: the text is displayed and
\* the itinerary frame shown
ProcessPreferencesReturn ==
    /\ window = "mainloop"
    /\ pc = "returned"
    /\ itinerary_display_var' = result.text
    /\ DisplayNextFrame(1)
    /\ pc' = "idle"
    /\ UNCHANGED <<day, location_urban_list, location_natural_list, activity_list,
                   itinerary, result, used, start_pools, first_pools, calls>>
    /\ UNCHANGED <<dataVars, fileVars, fieldVars, validatorVars, window, name_display_var,
                   destination_display_var, duration_display_var, styles_checked,
                   transport_display_var, selected_styles_display_var, name_entry,
                   duration_entry, error_type_display_var, callback_error, edits, restarts>>
    /\ handler' = "process_preferences_input"
    /\ UNCHANGED stored
    /\ at_click' = NoClick

\* IndexError left create_itinerary and process_preferences_input: Tk reports it and
\* goes back to the main loop
ProcessPreferencesRaise ==
    /\ window = "mainloop"
    /\ pc = "raised"
    /\ callback_error' = "IndexError"
    /\ pc' = "idle"
    /\ UNCHANGED <<day, location_urban_list, location_natural_list, activity_list,
                   itinerary, result, used, start_pools, first_pools, calls>>
    /\ UNCHANGED <<dataVars, fileVars, fieldVars, validatorVars, window, current_frame,
                   placed, name_display_var, destination_display_var,
                   duration_display_var, styles_checked, transport_display_var,
                   selected_styles_display_var, name_entry, duration_entry,
                   itinerary_display_var, error_type_display_var, edits, restarts>>
    /\ handler' = "process_preferences_input"
    /\ UNCHANGED stored
    /\ at_click' = NoClick

\* the button Back of the error frame: manage_error_frame()
ManageErrorFrame ==
    /\ Clickable("error_frame")
    /\ placed' = (placed \ {"error_frame"}) \cup {CurrentFrame}
    /\ callUnchanged
    /\ UNCHANGED <<dataVars, fileVars, fieldVars, validatorVars, window, current_frame,
                   name_display_var, destination_display_var, duration_display_var,
                   styles_checked, transport_display_var, selected_styles_display_var,
                   name_entry, duration_entry, itinerary_display_var,
                   error_type_display_var, callback_error, edits, restarts>>
    /\ handler' = "manage_error_frame"
    /\ UNCHANGED stored
    /\ UNCHANGED at_click

Init == InitWizard

Next ==
    \/ StartProgram
    \/ EndProgram
    \/ CloseWindow
    \/ NextFrameButton
    \/ PreviousFrameButton
    \/ RestartProgram
    \/ TypeName
    \/ ProcessNameInput
    \/ ProcessDestinationInput
    \/ EditPreferences
    \/ ProcessPreferencesInput
    \/ GenerateDay
    \/ GenerateReturn
    \/ ProcessPreferencesReturn
    \/ ProcessPreferencesRaise
    \/ ManageErrorFrame

Spec == Init /\ [][Next]_vars

\* C8: whenever the program has ended after start_program opened the data files,
\* both files have been closed
C8_FilesClosedAtExit ==
    (window = "destroyed") =>
        (location_file.state = "closed" /\ activity_file.state = "closed")

---------------------------------------------------------------------------
(* Claims about the wizard, under Spec. *)

\* a name that is valid: without its spaces, letters and digits only, at least one
NameIsValid(name) ==
    LET rest == SelectSeq(name, LAMBDA c : c # " ")
    IN  Len(rest) > 0 /\ \A i \in 1..Len(rest) : rest[i] \in AlphaPieces \cup DigitChars

\* a duration that is valid: without the whitespace around it, decimal digits 1..10
DurationIsValid(duration) ==
    OnlyDecimalDigits(Trimmed(duration)) /\ PyInt(Trimmed(duration)) \in 1..10

\* the step showed the error frame and changed nothing else the claims speak of
Rejected ==
    /\ placed' = {"error_frame"}
    /\ current_frame' = current_frame
    /\ fieldVars' = fieldVars
    /\ calls' = calls
    /\ pc' = "idle"

\* C15: a step of process_name_input on an invalid name, or of
\* process_preferences_input on no style or an invalid duration, shows the error
\* frame, leaves the frame index and the fields of the Itinerary as they were and
\* does not call create_itinerary; Back shows the frame of the unchanged index again;
\* a step of either handler goes on only from valid input
C15_FailedValidationChangesNothing ==
    [][/\ (pc = "idle" /\ handler' = "process_name_input"
              /\ ~NameIsValid(name_display_var)) => Rejected
       /\ (pc = "idle" /\ handler' = "process_preferences_input"
              /\ (StylesList = <<>> \/ ~DurationIsValid(duration_display_var))) => Rejected
       /\ (handler' = "manage_error_frame") =>
              (current_frame' = current_frame /\ placed' = {FrameAt(current_frame)})
       /\ (pc = "idle" /\ handler' = "process_name_input"
              /\ current_frame' # current_frame) => NameIsValid(name_display_var)
       /\ (pc = "idle" /\ handler' = "process_preferences_input" /\ pc' # "idle") =>
              (StylesList # <<>> /\ DurationIsValid(duration_display_var))
      ]_vars

\* C16: while the main loop runs current_frame is an index 0..5 of frame_cycle and
\* exactly one frame is shown, frame_cycle[current_frame] or the error frame
C16_OneFrameShown ==
    (window = "mainloop") =>
        /\ current_frame \in 0..5
        /\ placed = {frame_cycle[current_frame + 1]} \/ placed = {"error_frame"}

\* C16 witness: after a Restart the second destination frame is the one frame shown
C16_Witness ==
    /\ window = "mainloop"
    /\ restarts = 1
    /\ current_frame = 3
    /\ placed = {"destination_frame_two"}

\* the inputs were stored in the order name, destination, preferences (these last
\* once for every Create Itinerary click that passed the validation)
StoredInOrder ==
    /\ Len(stored) >= 3
    /\ stored[1] = "name"
    /\ stored[2] = "destination"
    /\ \A k \in 3..Len(stored) : stored[k] = "preferences"

\* C17: whenever create_itinerary runs or has just ended, both files are open, and
\* since the program was started or last restarted a valid name, then one of the
\* five destinations, then a non-empty list of styles and a stripped duration of
\* decimal digits in 1..10 were stored
C17_CalledOnlyOnValidatedFields ==
    (pc \in {"generate", "returned", "raised"}) =>
        /\ location_file.state = "open"
        /\ activity_file.state = "open"
        /\ StoredInOrder
        /\ NameIsValid(it_name)
        /\ it_destination \in Destinations
        /\ it_styles # <<>>
        /\ it_duration = Trimmed(it_duration)
        /\ DurationIsValid(it_duration)

\* C17 witness: a generation runs after a Restart click
C17_Witness == pc = "generate" /\ restarts = 1 /\ day = 1

\* C18: when create_itinerary has raised inside process_preferences_input the frame
\* index, the text displayed, the styles, transport and duration of the Itinerary
\* and the state of the duration entry are what the Create Itinerary click found,
\* the frame is the preferences frame and the entry can be edited
C18_RaiseLeavesStateAsFound ==
    (pc = "raised") =>
        /\ at_click = Found
        /\ CurrentFrame = "travel_preferences_frame"
        /\ duration_entry = "normal"

\* C19: a step of restart_program sets the frame index to 0, shows the menu frame and
\* enables both entries, and leaves the fields of the Itinerary, the checkboxes, the
\* transport chosen, the texts displayed and the two files as they were
C19_RestartChangesViewOnly ==
    [][(handler' = "restart_program") =>
          /\ current_frame' = 0
          /\ placed' = {"menu_frame"}
          /\ name_entry' = "normal"
          /\ duration_entry' = "normal"
          /\ fieldVars' = fieldVars
          /\ styles_checked' = styles_checked
          /\ transport_display_var' = transport_display_var
          /\ itinerary_display_var' = itinerary_display_var
          /\ <<name_display_var, destination_display_var, duration_display_var,
               selected_styles_display_var>>'
                 = <<name_display_var, destination_display_var, duration_display_var,
                     selected_styles_display_var>>
          /\ fileVars' = fileVars
          /\ dataVars' = dataVars
      ]_vars

\* C19 witness: Restart was clicked on the itinerary frame: the fields and the text
\* of the generation are kept, the files are open and the duration entry is enabled
C19_Witness ==
    /\ handler = "restart_program"
    /\ current_frame = 0
    /\ itinerary_display_var # <<>>
    /\ it_styles # <<>>
    /\ styles_checked # {}
    /\ duration_entry = "normal"
    /\ location_file.state = "open"

---------------------------------------------------------------------------
(* A claim about validate_duration, under SpecValidate. *)

\* C20: validate_duration gives True or False and never raises, for every string:
\* the empty one, whitespace only, signed numbers, digits that are not decimal
C20_DurationNeverRaises ==
    (pc = "validate_duration") => ret \in {"True", "False"}

=============================================================================
